---- MODULE Spec2Model ----
(***************************************************************************)
(* A model of pdf_reader/main.py: the PDFReader class (configuration,      *)
(* fetch, title/table association, page and document processing, CSV      *)
(* output) and the main() driver.                                          *)
(*                                                                         *)
(* Strings that the program converts (titles, file names) are sequences    *)
(* of one-character strings, so that replace() and lower() are computed.   *)
(* Vertical positions are integers.  A DataFrame is identified by the      *)
(* table it was built from: its page number and its index on the page.     *)
(***************************************************************************)
EXTENDS Integers, Sequences, FiniteSets, TLC

VARIABLES
    pc,               \* where the caller stands between / inside the method calls
    caller,           \* "main" while the calls follow main(); "other" once they do not
    last_call,        \* the method invoked last
    completed,        \* the pipeline steps that returned normally, in order
    config_file,      \* the YAML file on disk (input)
    config,           \* self.config
    url,              \* self.url
    table_settings,   \* self.table_settings
    title_pattern,    \* self.title_pattern
    pdf_file,         \* self.pdf_file
    page_num,         \* pages processed by extract_content_from_pdf
    combined_tables,  \* local of extract_content_from_pdf
    raw_tables,       \* main's raw_tables (the value extract_content_from_pdf returned)
    pending,          \* items of tables.items() that load_tables has not reached yet
    fs,               \* files of <results_path>/results: file name -> contents
    results_dir,      \* whether <results_path>/results exists
    err,              \* the exception that propagated out of the last call
    log,              \* logging.error records emitted
    winners,          \* history: title -> last table resolved to it and built
    untitled_tables,  \* history: tables of the pages on which no title was found
    raised_tables,    \* history: tables whose processing raised
    multi,            \* history: titles to which two or more tables resolved
    derived,          \* history: (title, file name) pairs save_as_csv derived
    written,          \* history: titles whose file was written
    in_titles,        \* find_title_for_table: argument titles
    in_table_top,     \* find_title_for_table: argument table_top
    out_title,        \* find_title_for_table: returned value
    apc               \* find_title_for_table: "idle" | "call" | "ret"

vars == << pc, caller, last_call, completed, config_file, config, url,
           table_settings, title_pattern, pdf_file, page_num, combined_tables,
           raw_tables, pending, fs, results_dir, err, log, winners,
           untitled_tables, raised_tables, multi, derived, written,
           in_titles, in_table_top, out_title, apc >>

pipevars == << pc, caller, last_call, completed, config_file, config, url,
               table_settings, title_pattern, pdf_file, page_num,
               combined_tables, raw_tables, pending, fs, results_dir, err, log,
               winners, untitled_tables, raised_tables, multi, derived, written >>

assocvars == << in_titles, in_table_top, out_title, apc >>

----------------------------------------------------------------------------
(* Bounds *)

\* pages of a document processed by the document processor
MaxPages == 2
\* titles handed to find_title_for_table when it is checked on its own
MaxTitles == 3
\* largest vertical position of a title (a table may lie one below it)
MaxTop == 3

----------------------------------------------------------------------------
(* Characters and strings *)

Uppers == << "A","B","C","D","E","F","G","H","I","J","K","L","M",
             "N","O","P","Q","R","S","T","U","V","W","X","Y","Z" >>
Lowers == << "a","b","c","d","e","f","g","h","i","j","k","l","m",
             "n","o","p","q","r","s","t","u","v","w","x","y","z" >>

\* str.lower() on one character
LowerChar(c) ==
    IF \E i \in DOMAIN Uppers : Uppers[i] = c
    THEN Lowers[CHOOSE i \in DOMAIN Uppers : Uppers[i] = c]
    ELSE c

\* str.lower()
Lower(s) == [i \in DOMAIN s |-> LowerChar(s[i])]

\* str.replace(old, new) for a one-character old and a one-character new
Replace(s, old, new) == [i \in DOMAIN s |-> IF s[i] = old THEN new ELSE s[i]]

\* str.replace(old, "") for a one-character old
RECURSIVE Remove(_, _)
Remove(s, old) ==
    IF s = << >> THEN << >>
    ELSE IF Head(s) = old THEN Remove(Tail(s), old)
    ELSE << Head(s) >> \o Remove(Tail(s), old)

\* Python's None where a title text is expected
None == << "<None>" >>
\* Python's None where a vertical position is expected (positions are >= 0)
NoTop == -1

\* the texts a title match can carry
TableOne  == << "T","a","b","l","e"," ","O","n","e" >>
table_one == << "t","a","b","l","e","_","o","n","e" >>
SumNL     == << "S","u","m","\n","m","a","r","y" >>
TitleTexts == { TableOne, table_one, SumNL }

Ext == << ".","c","s","v" >>
table_one_csv == << "t","a","b","l","e","_","o","n","e",".","c","s","v" >>

----------------------------------------------------------------------------
(* dict: insertion-ordered mapping, a sequence of <<key, value>> items *)

Keys(d) == { d[i][1] : i \in DOMAIN d }
HasKey(d, k) == \E i \in DOMAIN d : d[i][1] = k
Lookup(d, k) == d[CHOOSE i \in DOMAIN d : d[i][1] = k][2]

\* d[k] = v : an existing key keeps its position, a new key goes last
DictSet(d, k, v) ==
    IF HasKey(d, k)
    THEN [i \in DOMAIN d |-> IF d[i][1] = k THEN << k, v >> ELSE d[i]]
    ELSE Append(d, << k, v >>)

\* d.update(other)
RECURSIVE DictUpdate(_, _)
DictUpdate(d, other) ==
    IF other = << >> THEN d
    ELSE DictUpdate(DictSet(d, Head(other)[1], Head(other)[2]), Tail(other))

----------------------------------------------------------------------------
(* find_title_for_table *)

SetMax(S) == CHOOSE x \in S : \A y \in S : y <= x

\* truth value of a number-or-None in `if title_top:`
TopTruthy(t) == t # NoTop /\ t # 0

find_title_for_table(titles, table_top) ==
    LET tops == { titles[i].top : i \in { j \in DOMAIN titles : titles[j].top < table_top } }
        title_top == IF tops = {} THEN NoTop ELSE SetMax(tops)
    IN  IF TopTruthy(title_top)
        THEN LET first == CHOOSE i \in DOMAIN titles :
                              /\ titles[i].top = title_top
                              /\ \A j \in DOMAIN titles : titles[j].top = title_top => i <= j
             IN  Remove(titles[first].text, "\n")
        ELSE None

----------------------------------------------------------------------------
(* extract_tables_from_page *)

\* a DataFrame, identified by the table it was built from
DataFrame(pnum, index) == [page |-> pnum, index |-> index]

\* truth value of a str-or-None in `if title:`; the mutant takes every value
TitleFoundAlways(title) == TRUE
TitleFound(title) == title # None /\ title # << >>

\* whether the body of the try block raises for the table at index:
\* fault "bbox" is raised by find_tables(...)[index].bbox, fault "build" by
\* pd.DataFrame(...), which runs only when a title was found
TableRaises(page, index) ==
    LET table == page.tables[index]
    IN  \/ table.fault = "bbox"
        \/ /\ table.fault = "build"
           /\ TitleFound(find_title_for_table(page.titles, table.top))

\* the body of the try block for a table that does not raise
TableBody(page, pnum, index, tables_dict) ==
    LET title == find_title_for_table(page.titles, page.tables[index].top)
    IN  IF TitleFound(title)
        THEN DictSet(tables_dict, title, DataFrame(pnum, index))
        ELSE tables_dict

RECURSIVE TableLoop(_, _, _, _)

\* the mutant of AfterTableError: the first failing table ends the loop
AfterTableErrorAbort(page, pnum, index, tables_dict) == tables_dict

\* except Exception: log, and go on with the next table
AfterTableError(page, pnum, index, tables_dict) ==
    TableLoop(page, pnum, index + 1, tables_dict)

\* for index, table in enumerate(tables)
TableLoop(page, pnum, index, tables_dict) ==
    IF index > Len(page.tables) THEN tables_dict
    ELSE IF TableRaises(page, index)
    THEN AfterTableError(page, pnum, index, tables_dict)
    ELSE TableLoop(page, pnum, index + 1,
                   TableBody(page, pnum, index, tables_dict))

extract_tables_from_page(page, pnum) ==
    IF page.tables = << >> THEN << >>
    ELSE TableLoop(page, pnum, 1, << >>)

----------------------------------------------------------------------------
(* save_as_csv: the file name *)

\* the mutant of Filename: lower() is left out
FilenameNoLower(title) == Replace(title \o Ext, " ", "_")

\* f"{title}.csv".replace(" ", "_").lower()
Filename(title) == Lower(Replace(title \o Ext, " ", "_"))

----------------------------------------------------------------------------
(* Configuration *)

ConfigKeys == { "pdf_url", "table_settings", "pattern" }
\* a key of the YAML mapping: absent, null, an empty value, or a value
ConfigValues == { "absent", "null", "empty", "set" }

ConfigFile(kind, a, b, c) ==
    [kind |-> kind, pdf_url |-> a, table_settings |-> b, pattern |-> c]

\* every file: no file, not YAML, an empty document, a scalar, a mapping
AllConfigFiles ==
    { ConfigFile(k, "absent", "absent", "absent") :
        k \in { "missing", "malformed", "null", "scalar" } }
    \cup { ConfigFile("mapping", a, b, c) :
             a \in ConfigValues, b \in ConfigValues, c \in ConfigValues }

\* the files the whole pipeline is run on
RunConfigFiles ==
    { ConfigFile("missing", "absent", "absent", "absent"),
      ConfigFile("malformed", "absent", "absent", "absent"),
      ConfigFile("mapping", "set", "set", "absent"),
      ConfigFile("mapping", "set", "set", "set") }

NoConfig == ConfigFile("unset", "absent", "absent", "absent")

load_config(file) ==
    IF file.kind = "missing" THEN [raised |-> "FileNotFoundError", value |-> NoConfig]
    ELSE IF file.kind = "malformed" THEN [raised |-> "YAMLError", value |-> NoConfig]
    ELSE [raised |-> "none", value |-> file]

\* the mutant of Subscript: dict.get(key), None for a missing key
SubscriptGet(cfg, key) ==
    IF cfg.kind # "mapping" THEN [raised |-> "TypeError", value |-> "unset"]
    ELSE IF cfg[key] = "absent" THEN [raised |-> "none", value |-> "null"]
    ELSE [raised |-> "none", value |-> cfg[key]]

\* self.config[key]
Subscript(cfg, key) ==
    IF cfg.kind # "mapping" THEN [raised |-> "TypeError", value |-> "unset"]
    ELSE IF cfg[key] = "absent" THEN [raised |-> "KeyError", value |-> "unset"]
    ELSE [raised |-> "none", value |-> cfg[key]]

----------------------------------------------------------------------------
(* Inputs of the document processor *)

\* a title match: its text and its vertical position
Title(top, text) == [top |-> top, text |-> text]
\* a table: its vertical position and what processing it raises
Table(top, fault) == [top |-> top, fault |-> fault]

Faults == { "none", "bbox", "build" }

\* title matches of a page of the processed document: at most two
DocTitles == { Title(top, text) : top \in { 0, 1 }, text \in TitleTexts }
DocTitleSeqs ==
    { << >> } \cup { << a >> : a \in DocTitles }
    \cup { << a, b >> : a \in DocTitles, b \in DocTitles }

\* tables of a page, in detection order (the table finder sorts them by
\* their top): at most two
DocTables == { Table(top, f) : top \in { 0, 1, 2 }, f \in Faults }
DocTableSeqs ==
    { << >> } \cup { << a >> : a \in DocTables }
    \cup { << a, b >> \in DocTables \X DocTables : a.top <= b.top }

Page(titles, tables) == [titles |-> titles, tables |-> tables]

\* history bookkeeping, stated per table rather than by the loop
Resolves(page, index) == find_title_for_table(page.titles, page.tables[index].top)
BuiltIndexes(page, title) ==
    { i \in DOMAIN page.tables :
        /\ Resolves(page, i) = title
        /\ title # None /\ title # << >>
        /\ page.tables[i].fault = "none" }
RaisedIndexes(page) ==
    { i \in DOMAIN page.tables :
        \/ page.tables[i].fault = "bbox"
        \/ /\ page.tables[i].fault = "build"
           /\ Resolves(page, i) # None /\ Resolves(page, i) # << >> }


\* the titles the tables of a page resolve to
ResolvedTitles(page) ==
    { Resolves(page, i) : i \in DOMAIN page.tables } \ { None, << >> }

----------------------------------------------------------------------------
(* State *)

EmptyMap == [x \in {} |-> x]

\* a logging.error record; logging.info records are not kept
Event(level, what, subject) == << level, what, subject >>

InitAssocIdle ==
    /\ in_titles = << >>
    /\ in_table_top = 0
    /\ out_title = None
    /\ apc = "idle"

InitReader(files) ==
    /\ pc = "new"
    /\ caller = "main"
    /\ last_call = "none"
    /\ completed = << >>
    /\ config_file \in files
    /\ config = NoConfig
    /\ url = "unset"
    /\ table_settings = "unset"
    /\ title_pattern = "unset"
    /\ pdf_file = "unset"
    /\ page_num = 0
    /\ combined_tables = << >>
    /\ raw_tables = << >>
    /\ pending = << >>
    /\ fs = EmptyMap
    /\ results_dir = FALSE
    /\ err = "none"
    /\ log = {}
    /\ winners = EmptyMap
    /\ untitled_tables = {}
    /\ raised_tables = {}
    /\ multi = {}
    /\ derived = {}
    /\ written = {}

Init == InitReader(RunConfigFiles) /\ InitAssocIdle

----------------------------------------------------------------------------
(* PDFReader.__init__ and load_config *)

PDFReader_init ==
    /\ pc = "new"
    /\ LET r == load_config(config_file)
           a == Subscript(r.value, "pdf_url")
           b == Subscript(r.value, "table_settings")
           c == Subscript(r.value, "pattern")
           raised == IF r.raised # "none" THEN r.raised
                     ELSE IF a.raised # "none" THEN a.raised
                     ELSE IF b.raised # "none" THEN b.raised
                     ELSE c.raised
       IN  /\ config' = r.value
           /\ url' = IF r.raised = "none" /\ a.raised = "none" THEN a.value ELSE "unset"
           /\ table_settings' =
                 IF r.raised = "none" /\ a.raised = "none" /\ b.raised = "none"
                 THEN b.value ELSE "unset"
           /\ title_pattern' = IF raised = "none" THEN c.value ELSE "unset"
           /\ err' = raised
           /\ log' = IF r.raised = "FileNotFoundError"
                     THEN log \cup { Event("ERROR", "config_not_found", << >>) }
                     ELSE IF r.raised = "YAMLError"
                     THEN log \cup { Event("ERROR", "yaml_error", << >>) }
                     ELSE log
           /\ pc' = IF raised = "none" THEN "constructed" ELSE "aborted"
           /\ completed' = IF raised = "none" THEN << "config" >> ELSE << >>
    /\ last_call' = "__init__"
    /\ UNCHANGED << caller, config_file, pdf_file, page_num, combined_tables,
                    raw_tables, pending, fs, results_dir, winners,
                    untitled_tables, raised_tables, multi, derived, written >>
    /\ UNCHANGED assocvars

----------------------------------------------------------------------------
(* extract_pdf_from_url *)

extract_pdf_from_url ==
    /\ pc = "constructed"
    /\ last_call' = "extract_pdf_from_url"
    /\ \E responds \in BOOLEAN :
          IF responds /\ url = "set"
          THEN /\ pdf_file' = "bytes"
               /\ log' = log
               /\ err' = "none"
               /\ pc' = "fetched"
               /\ completed' = Append(completed, "fetch")
          ELSE /\ pdf_file' = pdf_file
               /\ log' = log \cup { Event("ERROR", "download_error", << >>) }
               /\ err' = "RequestException"
               /\ pc' = "fetch_failed"
               /\ completed' = completed
    /\ UNCHANGED << caller, config_file, config, url, table_settings,
                    title_pattern, page_num, combined_tables, raw_tables,
                    pending, fs, results_dir, winners, untitled_tables,
                    raised_tables, multi, derived, written >>
    /\ UNCHANGED assocvars

----------------------------------------------------------------------------
(* extract_content_from_pdf *)

\* entry: the check of self.pdf_file and pdfplumber.open.  main calls it
\* after a successful fetch; another caller may call it on any reader.
extract_content_from_pdf ==
    /\ pc \in { "constructed", "fetch_failed", "fetched" }
    /\ last_call' = "extract_content_from_pdf"
    /\ caller' = IF pc = "fetched" THEN caller ELSE "other"
    /\ IF pdf_file = "unset"
       THEN /\ err' = "AttributeError"
            /\ pc' = "aborted"
            /\ log' = log
       ELSE IF pdf_file = "None"
       THEN /\ err' = "DocumentNotLoaded"
            /\ pc' = "aborted"
            /\ log' = log
       ELSE \E opens \in BOOLEAN :
               IF opens
               THEN /\ err' = "none"
                    /\ pc' = "extracting"
                    /\ log' = log
               ELSE /\ err' = "ProcessError"
                    /\ pc' = "aborted"
                    /\ log' = log \cup { Event("ERROR", "pdf_error", << >>) }
    /\ combined_tables' = << >>
    /\ page_num' = 0
    /\ UNCHANGED << completed, config_file, config, url, table_settings,
                    title_pattern, pdf_file, raw_tables, pending, fs,
                    results_dir, winners, untitled_tables, raised_tables,
                    multi, derived, written >>
    /\ UNCHANGED assocvars

\* one iteration of `for page_num, page in enumerate(pdf.pages, start=1)`
ProcessPage ==
    /\ pc = "extracting"
    /\ page_num < MaxPages
    /\ \E titles \in DocTitleSeqs, tables \in DocTableSeqs :
         LET page == Page(titles, tables)
             num == page_num + 1
             tables_dict == extract_tables_from_page(page, num)
             built == { t \in ResolvedTitles(page) : BuiltIndexes(page, t) # {} }
         IN  /\ combined_tables' = DictUpdate(combined_tables, tables_dict)
             /\ page_num' = num
             /\ log' = log \cup { Event("ERROR", "table_error", << >>) :
                                    i \in RaisedIndexes(page) }
             /\ winners' =
                  [t \in DOMAIN winners \cup built |->
                     IF t \in built
                     THEN DataFrame(num, SetMax(BuiltIndexes(page, t)))
                     ELSE winners[t]]
             /\ untitled_tables' =
                  IF titles = << >>
                  THEN untitled_tables \cup { DataFrame(num, i) : i \in DOMAIN tables }
                  ELSE untitled_tables
             /\ raised_tables' =
                  raised_tables \cup { DataFrame(num, i) : i \in RaisedIndexes(page) }
             /\ multi' =
                  multi \cup { t \in built :
                                 \/ Cardinality(BuiltIndexes(page, t)) >= 2
                                 \/ t \in DOMAIN winners }
    /\ UNCHANGED << pc, caller, last_call, completed, config_file, config, url,
                    table_settings, title_pattern, pdf_file, raw_tables,
                    pending, fs, results_dir, err, derived, written >>
    /\ UNCHANGED assocvars

\* the mutant of ProcessPageFails: the error is logged and the tables
\* gathered so far are returned
ProcessPageFailsSwallowed ==
    /\ pc = "extracting"
    /\ page_num < MaxPages
    /\ log' = log \cup { Event("ERROR", "pdf_error", << >>) }
    /\ raw_tables' = combined_tables
    /\ pc' = "extracted"
    /\ UNCHANGED << caller, last_call, completed, config_file, config, url,
                    table_settings, title_pattern, pdf_file, page_num,
                    combined_tables, pending, fs, results_dir, err, winners,
                    untitled_tables, raised_tables, multi, derived, written >>
    /\ UNCHANGED assocvars

\* a page whose search or extract_tables raises: except Exception, log, raise
ProcessPageFails ==
    /\ pc = "extracting"
    /\ page_num < MaxPages
    /\ log' = log \cup { Event("ERROR", "pdf_error", << >>) }
    /\ err' = "ProcessError"
    /\ pc' = "aborted"
    /\ combined_tables' = << >>
    /\ UNCHANGED << caller, last_call, completed, config_file, config, url,
                    table_settings, title_pattern, pdf_file, page_num,
                    raw_tables, pending, fs, results_dir, winners,
                    untitled_tables, raised_tables, multi, derived, written >>
    /\ UNCHANGED assocvars

\* the pages are exhausted: return combined_tables
ExtractReturn ==
    /\ pc = "extracting"
    /\ raw_tables' = combined_tables
    /\ pc' = "extracted"
    /\ completed' = Append(completed, "extract")
    /\ UNCHANGED << caller, last_call, config_file, config, url,
                    table_settings, title_pattern, pdf_file, page_num,
                    combined_tables, pending, fs, results_dir, err, log,
                    winners, untitled_tables, raised_tables, multi, derived,
                    written >>
    /\ UNCHANGED assocvars

----------------------------------------------------------------------------
(* load_tables and save_as_csv *)

\* entry of load_tables(raw_tables)
load_tables ==
    /\ pc = "extracted"
    /\ last_call' = "load_tables"
    /\ IF raw_tables = << >>
       THEN /\ log' = log \cup { Event("ERROR", "no_tables", << >>) }
            /\ pc' = "finished"
            /\ pending' = << >>
            /\ completed' = Append(completed, "load")
       ELSE /\ log' = log
            /\ pc' = "saving"
            /\ pending' = raw_tables
            /\ completed' = completed
    /\ UNCHANGED << caller, config_file, config, url, table_settings,
                    title_pattern, pdf_file, page_num, combined_tables,
                    raw_tables, fs, results_dir, err, winners,
                    untitled_tables, raised_tables, multi, derived, written >>
    /\ UNCHANGED assocvars

FsWrite(files, name, df) ==
    [n \in DOMAIN files \cup { name } |-> IF n = name THEN df ELSE files[n]]

\* one iteration of `for title, table in tables.items()`: save_as_csv.
\* os.makedirs can fail only while the directory does not exist yet.
save_as_csv ==
    /\ pc = "saving"
    /\ pending # << >>
    /\ LET title == Head(pending)[1]
           df == Head(pending)[2]
           filename == Filename(title)
       IN  \E outcome \in { "ok", "makedirs_raises", "to_csv_raises" } :
             IF outcome = "makedirs_raises" /\ ~results_dir
             THEN /\ err' = "OSError"
                  /\ pc' = "aborted"
                  /\ UNCHANGED << pending, fs, results_dir, log, derived,
                                  written, completed >>
             ELSE /\ results_dir' = TRUE
                  /\ derived' = derived \cup { << title, filename >> }
                  /\ IF outcome = "to_csv_raises"
                     THEN /\ fs' = fs
                          /\ written' = written
                          /\ log' = log \cup { Event("ERROR", "save_error", title) }
                     ELSE /\ fs' = FsWrite(fs, filename, df)
                          /\ written' = written \cup { title }
                          /\ log' = log
                  /\ pending' = Tail(pending)
                  /\ pc' = IF Tail(pending) = << >> THEN "finished" ELSE "saving"
                  /\ completed' = IF Tail(pending) = << >>
                                  THEN Append(completed, "load") ELSE completed
                  /\ err' = err
    /\ UNCHANGED << caller, last_call, config_file, config, url,
                    table_settings, title_pattern, pdf_file, page_num,
                    combined_tables, raw_tables, winners, untitled_tables,
                    raised_tables, multi >>
    /\ UNCHANGED assocvars

----------------------------------------------------------------------------
(* Specifications *)

Next ==
    \/ PDFReader_init
    \/ extract_pdf_from_url
    \/ extract_content_from_pdf
    \/ ProcessPage
    \/ ProcessPageFails
    \/ ExtractReturn
    \/ load_tables
    \/ save_as_csv

\* the reader driven through construction, fetch, extraction and output
Spec == Init /\ [][Next]_vars

\* construction and fetch on every configuration file
InitConfig == InitReader(AllConfigFiles) /\ InitAssocIdle
NextConfig ==
    \/ PDFReader_init
    \/ extract_pdf_from_url
SpecConfig == InitConfig /\ [][NextConfig]_vars

\* find_title_for_table on every list of titles and every table top
AssocTitles == { Title(top, text) : top \in 0..MaxTop, text \in TitleTexts }
AssocTitleSeqs == UNION { [1..n -> AssocTitles] : n \in 0..MaxTitles }

InitAssoc ==
    /\ InitReader({ NoConfig })
    /\ in_titles \in AssocTitleSeqs
    /\ in_table_top \in 0..(MaxTop + 1)
    /\ out_title = None
    /\ apc = "call"

FindTitle ==
    /\ apc = "call"
    /\ out_title' = find_title_for_table(in_titles, in_table_top)
    /\ apc' = "ret"
    /\ UNCHANGED << in_titles, in_table_top >>
    /\ UNCHANGED pipevars

NextAssoc == FindTitle
SpecAssoc == InitAssoc /\ [][NextAssoc]_vars

----------------------------------------------------------------------------
(* Properties *)

Values(d) == { d[i][2] : i \in DOMAIN d }
FsValues == { fs[n] : n \in DOMAIN fs }

\* the mapping the document processor holds: its local while the pages are
\* read, the returned value afterwards
Result == IF pc = "extracting" THEN combined_tables ELSE raw_tables
HasResult == pc \in { "extracting", "extracted", "saving", "finished" }

\* C1: find_title_for_table returns the text (line breaks aside) of a title
\* whose top is the greatest among the tops strictly less than table_top, and
\* returns None exactly when no title has a top strictly less than table_top.
C1_closest_title_above ==
    apc = "ret" =>
        LET below == { i \in DOMAIN in_titles : in_titles[i].top < in_table_top }
        IN  IF below = {}
            THEN out_title = None
            ELSE /\ out_title # None
                 /\ \E i \in below :
                       /\ \A j \in below : in_titles[j].top <= in_titles[i].top
                       /\ out_title = Remove(in_titles[i].text, "\n")

\* C2: when two tables resolve to the same title, the returned mapping holds
\* the later table for that title, and once load_tables has written the
\* title's file, that file contains the later table.
C2_last_write_wins ==
    \A t \in multi :
        /\ HasResult => HasKey(Result, t) /\ Lookup(Result, t) = winners[t]
        /\ (pc = "finished" /\ t \in written) =>
              /\ Filename(t) \in DOMAIN fs
              /\ fs[Filename(t)] = winners[t]

\* C3: no table of a page on which no title was found is in the page's
\* mapping, in the combined mapping or in an output file; a two-page document
\* whose only titled table is on page 1 ends with exactly one output file.
C3_untitled_page_dropped ==
    /\ \A df \in untitled_tables :
          /\ df \notin Values(combined_tables)
          /\ df \notin Values(raw_tables)
          /\ df \notin Values(pending)
          /\ df \notin FsValues
    /\ ( /\ pc = "finished"
         /\ \E t \in DOMAIN winners :
               DOMAIN winners = { t } /\ winners[t].page = 1 /\ written = { t }
         /\ \E df \in untitled_tables : df.page = 2 )
       => Cardinality(DOMAIN fs) = 1

C3_witness ==
    /\ pc = "finished"
    /\ Cardinality(DOMAIN fs) = 1
    /\ \E df \in untitled_tables : df.page = 2
    /\ \E t \in DOMAIN winners : winners[t].page = 1

\* C4: extract_content_from_pdf on a reader without fetched bytes fails with
\* the document-not-loaded error and processes no page.
C4_not_loaded_error ==
    (last_call = "extract_content_from_pdf" /\ pdf_file # "bytes") =>
        /\ err = "DocumentNotLoaded"
        /\ page_num = 0

\* C5 as stated: a configuration file lacking a required key makes loading
\* fail, and a configuration that loads has the three required fields present
\* and non-empty.
C5_loaded_fields_nonempty ==
    pc # "new" =>
        /\ (\E k \in ConfigKeys : config_file[k] = "absent") => pc = "aborted"
        /\ pc # "aborted" => \A k \in ConfigKeys : config_file[k] = "set"

\* C5 as amended: a configuration file lacking a required key makes the
\* construction of the reader fail with an error; when construction succeeds
\* the file is a mapping with the three required keys present, and the
\* reader's fields carry their values, which may be null or empty.
C5_loaded_fields_present ==
    pc # "new" =>
        /\ (\E k \in ConfigKeys : config_file[k] = "absent") =>
              /\ pc = "aborted"
              /\ err \in { "FileNotFoundError", "YAMLError", "TypeError", "KeyError" }
              /\ title_pattern = "unset"
        /\ pc # "aborted" =>
              /\ config_file.kind = "mapping"
              /\ \A k \in ConfigKeys : config_file[k] # "absent"
              /\ config = config_file
              /\ url = config_file.pdf_url
              /\ table_settings = config_file.table_settings
              /\ title_pattern = config_file.pattern

C5_witness ==
    /\ pc = "aborted"
    /\ err = "KeyError"
    /\ config_file.kind = "mapping"
    /\ config_file.pdf_url = "set"
    /\ config_file.pattern = "absent"

\* C6: a failure at any step of save_as_csv is logged, does not propagate out
\* of load_tables, and save_as_csv is still attempted for every title.
C6_save_failures_nonfatal ==
    last_call = "load_tables" =>
        /\ err = "none"
        /\ pc # "aborted"
        /\ pc = "finished" => Keys(raw_tables) = { d[1] : d \in derived }
        /\ \A d \in derived :
              d[1] \notin written => Event("ERROR", "save_error", d[1]) \in log

\* C7: a table whose processing raises does not stop the page or the
\* document: the mapping holds, for every title, the last table that resolved
\* to it and was built, on the failing table's page and on later pages; the
\* failing tables alone are left out and no error is raised.
C7_table_failure_nonfatal ==
    HasResult =>
        /\ Keys(Result) = DOMAIN winners
        /\ \A t \in DOMAIN winners : Lookup(Result, t) = winners[t]
        /\ \A df \in raised_tables : df \notin Values(Result)
        /\ pc = "extracting" => err = "none"

C7_witness ==
    /\ pc = "extracted"
    /\ \E r \in raised_tables :
          /\ \E t \in DOMAIN winners :
                winners[t].page = r.page /\ winners[t].index > r.index
          /\ \E t \in DOMAIN winners : winners[t].page > r.page

\* C8: after load_tables has written every entry of the mapping without a
\* failure, the results directory holds exactly one file per entry.
C8_one_file_per_entry ==
    (pc = "finished" /\ written = Keys(raw_tables)) =>
        Cardinality(DOMAIN fs) = Len(raw_tables)

\* C9: the file name save_as_csv derives from a title is the title with
\* ".csv" appended, in lower case and without spaces; deriving again from the
\* derived name's characters changes nothing, and "Table One" yields
\* "table_one.csv".
C9_filename_derivation ==
    /\ \A d \in derived :
          /\ d[1] = TableOne => d[2] = table_one_csv
          /\ Len(d[2]) = Len(d[1]) + Len(Ext)
          /\ SubSeq(d[2], Len(d[1]) + 1, Len(d[2])) = Ext
          /\ Lower(Replace(d[2], " ", "_")) = d[2]
          /\ \A i \in DOMAIN d[2] :
                d[2][i] # " " /\ ~(\E u \in DOMAIN Uppers : Uppers[u] = d[2][i])
    /\ DOMAIN fs \subseteq { d[2] : d \in derived }

C9_witness ==
    /\ << TableOne, table_one_csv >> \in derived
    /\ table_one_csv \in DOMAIN fs

\* C10: in a run of main the steps complete in the order load config, fetch,
\* process all pages, write; the results directory is created and a file is
\* written only after the first three have completed, and a failure of one of
\* them ends the run with no output.
PipelineOrder == << "config", "fetch", "extract", "load" >>
C10_no_output_before_extraction ==
    caller = "main" =>
        /\ Len(completed) <= Len(PipelineOrder)
        /\ completed = SubSeq(PipelineOrder, 1, Len(completed))
        /\ (results_dir \/ DOMAIN fs # {} \/ pc = "saving" \/ derived # {}) =>
              /\ Len(completed) >= 3
              /\ pdf_file = "bytes"
              /\ err = "none"
        /\ err \in { "FileNotFoundError", "YAMLError", "TypeError", "KeyError",
                     "RequestException", "ProcessError" } =>
              /\ pc \in { "aborted", "fetch_failed" }
              /\ ~results_dir
              /\ DOMAIN fs = {}

C10_witness ==
    /\ caller = "main"
    /\ pc = "aborted"
    /\ err = "ProcessError"
    /\ page_num = 1
    /\ DOMAIN winners # {}
    /\ ~results_dir

====
